---- MODULE Spec2Model ----
(***************************************************************************)
(* Model of the MQTT session engine of hebo: MqttClient (the session       *)
(* facade, src/src/mqtt/mqtt_client.cpp), SubscriptionModel (the           *)
(* subscription registry) and MessageStreamModel (the message log).        *)
(*                                                                         *)
(* The protocol library (mqtt_cpp) is the environment: a client object     *)
(* created by requestConnect delivers its connack / publish / close /      *)
(* error handlers only while the session's poll timer pumps the            *)
(* io_context (MqttClient::timerEvent).                                    *)
(***************************************************************************)
EXTENDS Integers, Sequences, FiniteSets, TLC

VARIABLES
  state_,        \* MqttClient::state_
  emitted,       \* the most recent values carried by stateChanged, in order
  client,        \* p_->client: index into net, 0 = null shared_ptr
  net,           \* the protocol-library clients created so far
  timer_id_,     \* MqttClient::timer_id_
  timers,        \* ids of the Qt timers that are running
  list_,         \* SubscriptionModel::list_
  messages_,     \* MessageStreamModel::messages_
  handled,       \* publish requests / inbound deliveries in the order handled
  steps,         \* accepted requests and inbound deliveries so far
  last,          \* the most recent request or worker event, with the
                 \* protocol-library call it issued
  running,       \* FALSE once the process has been terminated
  destroyed,     \* TRUE once the MqttClient object has been deleted
  configs_,      \* ConnectManager::configs_, each config by its id
  clients_,      \* ConnectManager::clients_: pairs <<config id, MqttClient>>
  uuids,         \* ids handed out by generateConfigId so far
  objects,       \* MqttClient objects ConnectManager has created so far
  conn_list_,    \* ConnectionModel::list_, each entry by its name
  called         \* the most recent ConnectManager call and its result

vars == <<state_, emitted, client, net, timer_id_, timers, list_, messages_,
          handled, steps, last, running, destroyed, configs_, clients_,
          uuids, objects, conn_list_, called>>

\* the variables of one session (MqttClient or InternalClient)
SessionVars ==
  <<state_, emitted, client, net, timer_id_, timers, list_, messages_,
    handled, steps, last, running, destroyed>>

\* the variables of ConnectManager and ConnectionModel
ManagerVars == <<configs_, clients_, uuids, objects, conn_list_, called>>

----------------------------------------------------------------------------
(* Bounds of the model *)

MaxSteps == 3
MaxClients == 2
MaxMessages == 2
\* the observer keeps the most recent MaxObserved values of stateChanged
MaxObserved == 2
\* configs created by addConnection
MaxConfigs == 3
\* entries of the ConnectionModel list
MaxConnections == 3

----------------------------------------------------------------------------
(* ConnectionState and QoS *)

ConnectionDisconnected == "Disconnected"
ConnectionConnecting == "Connecting"
ConnectionConnected == "Connected"
ConnectionConnectFailed == "ConnectFailed"
ConnectionDisconnecting == "Disconnecting"

ConnectionState ==
  {ConnectionDisconnected, ConnectionConnecting, ConnectionConnected,
   ConnectionConnectFailed, ConnectionDisconnecting}

AtMostOnce == 0
AtLeastOnce == 1
ExactOnce == 2
QoS == {AtMostOnce, AtLeastOnce, ExactOnce}

----------------------------------------------------------------------------
(* Inputs.  Topics and payloads are byte strings (tuples of bytes) so that *)
(* the C-string conversions of the code can be computed.                   *)

Hello == <<72, 101, 108, 108, 111>>
Topics == {<<97>>, <<98>>}
Payloads == {<<1>>, <<2, 0, 3>>}
Colors == {"blue"}
\* inputs of requestSubscribe, requestPublish and of inbound PUBLISH packets
SubQoS == {AtLeastOnce}
\* topics of requestUnsubscribe: the entry the registry starts with as well
UnsubTopics == Topics \cup {Hello}
PubTopics == {<<97>>}
InQoS == {AtMostOnce, AtLeastOnce}
\* packet ids of inbound QoS>0 PUBLISH packets, as their two bytes on the wire
PacketIds == {<<0, 1>>, <<1, 0>>}
\* the bytes that follow a received PUBLISH packet in memory
Beyond == {<<0>>, <<9, 0>>}

accepted == "accepted"
ReturnCodes == {accepted, "not_authorized"}

NoTopic == <<>>
NoPayload == <<>>

----------------------------------------------------------------------------
(* Byte-string conversions *)

\* what a const char* reader sees of bytes b: everything before the first NUL
RECURSIVE CStr(_)
CStr(b) ==
  IF b = <<>> \/ Head(b) = 0 THEN <<>> ELSE <<Head(b)>> \o CStr(Tail(b))

\* QColor of a colour name (the entries of gNamedColors the model uses)
parseColor(name) ==
  CASE name = "red" -> <<255, 0, 0>>
    [] name = "blue" -> <<0, 0, 255>>

\* Qt::red as a QColor
QtRed == <<255, 0, 0>>

----------------------------------------------------------------------------
(* SubscriptionModel *)

\* a lookup that only compares the first entry
hasSubscription_first(l, topic) ==
  l # <<>> /\ l[1].topic = topic

hasSubscription(l, topic) ==
  \E k \in 1..Len(l) : l[k].topic = topic

\* the list after addSubscription(topic, qos, color)
addSubscription(l, topic, qos, color) ==
  IF hasSubscription(l, topic)
    THEN l
    ELSE Append(l, [topic |-> topic, color |-> parseColor(color), qos |-> qos])

\* index of the first entry with that topic, 0 if there is none
firstIndex(l, topic) ==
  IF hasSubscription(l, topic)
    THEN CHOOSE k \in 1..Len(l) :
           /\ l[k].topic = topic
           /\ \A j \in 1..(k - 1) : l[j].topic # topic
    ELSE 0

\* a removal that also drops every entry after index k
removeAt_tail(l, k) == SubSeq(l, 1, k - 1)

removeAt(l, k) == SubSeq(l, 1, k - 1) \o SubSeq(l, k + 1, Len(l))

\* a removal that drops the first entry when the topic is not found
removeSubscription_head(l, topic) ==
  IF \E k \in 1..Len(l) : l[k].topic = topic
    THEN SubSeq(l, 1, (CHOOSE k \in 1..Len(l) :
                        /\ l[k].topic = topic
                        /\ \A j \in 1..(k - 1) : l[j].topic # topic) - 1)
         \o SubSeq(l, (CHOOSE k \in 1..Len(l) :
                        /\ l[k].topic = topic
                        /\ \A j \in 1..(k - 1) : l[j].topic # topic) + 1, Len(l))
    ELSE IF l = <<>> THEN l ELSE Tail(l)

\* the list after removeSubscription(topic); its result is hasSubscription
removeSubscription(l, topic) ==
  IF firstIndex(l, topic) = 0 THEN l ELSE removeAt(l, firstIndex(l, topic))

----------------------------------------------------------------------------
(* MessageStreamModel *)

\* an insertion at the front instead of the end
addMessage_front(m, message) == <<message>> \o m

\* an insertion that overwrites the newest entry of a non-empty log
addMessage_overwrite(m, message) ==
  IF m = <<>> THEN <<message>> ELSE [m EXCEPT ![Len(m)] = message]

\* row(row, msg): msg is assigned messages_.at(row) and the result is true
\* for 0 <= row < length; otherwise the result is false
row(m, r) ==
  IF r >= 0 /\ r < Len(m)
    THEN [ok |-> TRUE, msg |-> <<m[r + 1]>>]
    ELSE [ok |-> FALSE, msg |-> <<>>]

\* the row addMessage announces with beginInsertRows(QModelIndex(), pos, pos)
insertedRow(m) == Len(m)

addMessage(m, message) == Append(m, message)

----------------------------------------------------------------------------
(* The protocol library's client objects (environment).                    *)
(* phase: "connecting" after async_connect, "connected" after an accepted  *)
(* CONNACK, "refused" after a CONNACK with another return code, "closed"   *)
(* once the close handler has been delivered, "failed" once the error      *)
(* handler has been delivered.                                             *)
(* disc: a DISCONNECT has been sent.  subs: SUBSCRIBEs awaiting a SUBACK.  *)
(* cancelled: requestDisconnect was called while this client was           *)
(* p_->client and none of its handlers had run yet.                        *)
(* pubs: async_publish calls whose completion callback is still to be run. *)

NewClient ==
  [phase |-> "connecting", disc |-> FALSE, subs |-> {}, cancelled |-> FALSE,
   pubs |-> 0]

Live(c) == c.phase \notin {"closed", "failed"}

\* async_disconnect: sends DISCONNECT only on an established connection
async_disconnect(n, i) ==
  IF n[i].phase = "connected" THEN [n EXCEPT ![i].disc = TRUE] ELSE n

\* async_subscribe: sent only on an established connection
async_subscribe(n, i, topic) ==
  IF n[i].phase = "connected"
    THEN [n EXCEPT ![i].subs = @ \cup {topic}]
    ELSE n

\* async_publish: the completion callback is queued whatever becomes of the
\* write
async_publish(n, i) == [n EXCEPT ![i].pubs = @ + 1]

\* a call into the protocol library, with the arguments it is given
LibCall(op, topic, qos, payload) ==
  [op |-> op, topic |-> topic, qos |-> qos, payload |-> payload]

NoLibCall == LibCall("none", NoTopic, 0, NoPayload)

\* MqttClient::timerEvent pumps the io_context while a timer is running;
\* handlers are only ever invoked from inside poll()
Polling == timers # {}

\* QObject::startTimer: a timer id that is not in use
startTimer == CHOOSE t \in 1..(MaxClients + 2) :
                /\ t \notin timers
                /\ \A u \in 1..(t - 1) : u \in timers

----------------------------------------------------------------------------
(* MqttClient *)

\* the log an observer of stateChanged keeps
Observe(log, state) ==
  IF Len(log) < MaxObserved THEN Append(log, state) ELSE Append(Tail(log), state)

\* an assignment of state_ that emits nothing
setState_quiet(state) ==
  /\ state_' = state
  /\ emitted' = emitted

setState(state) ==
  /\ state_' = state
  /\ emitted' = Observe(emitted, state)

\* op: the request or handler; pre: state_ when it started; cl: the library
\* client it concerns; rc: its outcome; lib: the library call it issued
Event(op, pre, topic, qos, payload, cl, rc, lib) ==
  [op |-> op, pre |-> pre, topic |-> topic, qos |-> qos, payload |-> payload,
   client |-> cl, rc |-> rc, lib |-> lib]

\* a call record: op is the function, id its argument, ret its result, saved
\* whether it wrote the connection file
Call(op, id, ret, saved) == [op |-> op, id |-> id, ret |-> ret, saved |-> saved]

\* ConnectManager before any call, with no connection file to load, and an
\* empty ConnectionModel
ConnectManagerInit ==
  /\ configs_ = <<>>
  /\ clients_ = {}
  /\ uuids = 0
  /\ objects = 0
  /\ conn_list_ = <<>>
  /\ called = Call("init", 0, 0, FALSE)

Init ==
  /\ ConnectManagerInit
  /\ state_ = ConnectionDisconnected
  /\ emitted = <<>>
  /\ client = 0
  /\ net = <<>>
  /\ timer_id_ = 0
  /\ timers = {}
  /\ list_ = <<[topic |-> Hello, color |-> QtRed, qos |-> AtMostOnce]>>
  /\ messages_ = <<>>
  /\ handled = <<>>
  /\ steps = 0
  /\ last = Event("init", ConnectionDisconnected, NoTopic, 0, NoPayload, 0, "",
                  NoLibCall)
  /\ running = TRUE
  /\ destroyed = FALSE

\* an accepted request or an inbound delivery
Step == steps < MaxSteps /\ steps' = steps + 1

\* a connect that starts the attempt and the timer but announces nothing
requestConnect_unannounced ==
  /\ running
  /\ ~destroyed
  /\ steps < MaxSteps /\ steps' = steps + 1
  /\ Len(net) < MaxClients
  /\ net' = Append(net, [phase |-> "connecting", disc |-> FALSE, subs |-> {},
                         cancelled |-> FALSE, pubs |-> 0])
  /\ client' = Len(net) + 1
  /\ timer_id_' = (CHOOSE t \in 1..(MaxClients + 2) :
                     t \notin timers /\ \A u \in 1..(t - 1) : u \in timers)
  /\ timers' = timers \cup {timer_id_'}
  /\ last' = [op |-> "requestConnect", pre |-> state_, topic |-> <<>>,
              qos |-> 0, payload |-> <<>>, client |-> Len(net) + 1, rc |-> "",
              lib |-> [op |-> "async_connect", topic |-> <<>>, qos |-> 0,
                       payload |-> <<>>]]
  /\ UNCHANGED <<state_, emitted, list_, messages_, handled, destroyed, ManagerVars,
                 running>>

requestConnect ==
  /\ running
  /\ ~destroyed
  /\ Step
  /\ Len(net) < MaxClients
  /\ net' = Append(net, NewClient)
  /\ client' = Len(net) + 1
  /\ timer_id_' = startTimer
  /\ timers' = timers \cup {startTimer}
  /\ setState(ConnectionConnecting)
  /\ last' = Event("requestConnect", state_, NoTopic, 0, NoPayload, Len(net) + 1,
                   "", LibCall("async_connect", NoTopic, 0, NoPayload))
  /\ UNCHANGED <<list_, messages_, handled, destroyed, ManagerVars, running>>

\* p_->client is dereferenced after setState; with a null p_->client that is
\* undefined behaviour: the process is terminated or goes on
requestDisconnect ==
  /\ running
  /\ ~destroyed
  /\ Step
  /\ setState(ConnectionDisconnecting)
  /\ IF client = 0
       THEN /\ running' \in BOOLEAN
            /\ last' = Event("requestDisconnect", state_, NoTopic, 0, NoPayload,
                             client, "null_client", NoLibCall)
            /\ UNCHANGED net
       ELSE /\ net' = [async_disconnect(net, client) EXCEPT
                         ![client].cancelled = (net[client].phase = "connecting")]
            /\ last' = Event("requestDisconnect", state_, NoTopic, 0, NoPayload,
                             client, "",
                             LibCall("async_disconnect", NoTopic, 0, NoPayload))
            /\ UNCHANGED running
  /\ UNCHANGED <<client, timer_id_, timers, list_, messages_, handled,
                 destroyed, ManagerVars>>

\* Q_ASSERT(state_ == ConnectionConnected) fails: a debug build aborts, a
\* release build (QT_NO_DEBUG) goes on to the guard that returns
InvalidState(op) ==
  /\ running
  /\ ~destroyed
  /\ state_ # ConnectionConnected
  /\ \E debug_build \in BOOLEAN : running' = ~debug_build
  /\ last' = Event(op, state_, NoTopic, 0, NoPayload, client, "invalid_state",
                   NoLibCall)
  /\ UNCHANGED <<state_, emitted, client, net, timer_id_, timers, list_,
                 messages_, handled, destroyed, ManagerVars, steps>>

requestSubscribe(topic, qos, color) ==
  \/ InvalidState("requestSubscribe")
  \/ /\ running
     /\ ~destroyed
     /\ state_ = ConnectionConnected
     /\ hasSubscription(list_, topic)
     /\ last' = Event("requestSubscribe", state_, topic, qos, NoPayload, client,
                      "duplicate", NoLibCall)
     /\ UNCHANGED <<state_, emitted, client, net, timer_id_, timers, list_,
                    messages_, handled, destroyed, ManagerVars, steps, running>>
  \/ /\ running
     /\ ~destroyed
     /\ state_ = ConnectionConnected
     /\ ~hasSubscription(list_, topic)
     /\ Step
     /\ list_' = addSubscription(list_, topic, qos, color)
     /\ net' = async_subscribe(net, client, topic)
     /\ last' = Event("requestSubscribe", state_, topic, qos, NoPayload, client,
                      "accepted", LibCall("async_subscribe", topic, qos, NoPayload))
     /\ UNCHANGED <<state_, emitted, client, timer_id_, timers, messages_,
                    handled, destroyed, ManagerVars, running>>

requestUnsubscribe(topic) ==
  \/ InvalidState("requestUnsubscribe")
  \/ /\ running
     /\ ~destroyed
     /\ state_ = ConnectionConnected
     /\ ~hasSubscription(list_, topic)
     /\ list_' = removeSubscription(list_, topic)
     /\ last' = Event("requestUnsubscribe", state_, topic, 0, NoPayload, client,
                      "not_subscribed", NoLibCall)
     /\ UNCHANGED <<state_, emitted, client, net, timer_id_, timers, messages_,
                    handled, destroyed, ManagerVars, steps, running>>
  \/ /\ running
     /\ ~destroyed
     /\ state_ = ConnectionConnected
     /\ hasSubscription(list_, topic)
     /\ Step
     /\ list_' = removeSubscription(list_, topic)
     /\ last' = Event("requestUnsubscribe", state_, topic, 0, NoPayload, client,
                      "accepted",
                      LibCall("async_unsubscribe", topic, 0, NoPayload))
     /\ UNCHANGED <<state_, emitted, client, net, timer_id_, timers, messages_,
                    handled, destroyed, ManagerVars, running>>

\* a message marked as received instead of published
OutboundMessage_received(topic, qos, payload) ==
  [topic |-> topic, qos |-> qos, is_publish |-> FALSE, payload |-> payload]

\* the MqttMessage requestPublish builds
OutboundMessage(topic, qos, payload) ==
  [topic |-> topic, qos |-> qos, is_publish |-> TRUE, payload |-> payload]

\* async_publish always uses MQTT_NS::qos::exactly_once and a payload buffer
\* built from payload.constData(), a C string
requestPublish(topic, qos, payload) ==
  \/ InvalidState("requestPublish")
  \/ /\ running
     /\ ~destroyed
     /\ state_ = ConnectionConnected
     /\ Step
     /\ Len(messages_) < MaxMessages
     /\ messages_' = addMessage(messages_, OutboundMessage(topic, qos, payload))
     /\ handled' = Append(handled, [is_publish |-> TRUE, payload |-> payload])
     /\ last' = Event("requestPublish", state_, topic, qos, payload, client,
                      "accepted",
                      LibCall("async_publish", topic, ExactOnce, CStr(payload)))
     /\ net' = async_publish(net, client)
     /\ UNCHANGED <<state_, emitted, client, timer_id_, timers, list_,
                    running, destroyed, ManagerVars>>

----------------------------------------------------------------------------
(* Handlers installed by requestConnect, run by io_context.poll()          *)

Worker(i) == running /\ Polling /\ i \in 1..Len(net)

\* a connack handler that is also run for a connection already closed
ConnackHandler_late(i, rc) ==
  /\ running /\ timers # {} /\ i \in 1..Len(net)
  /\ net[i].phase \in {"connecting", "closed"}
  /\ net' = [net EXCEPT ![i].phase = IF rc = "accepted" THEN "connected"
                                                        ELSE "refused"]
  /\ state_' = "Connected"
  /\ emitted' = IF Len(emitted) < MaxObserved
                  THEN Append(emitted, "Connected")
                  ELSE Append(Tail(emitted), "Connected")
  /\ last' = [op |-> "connack", pre |-> state_, topic |-> <<>>, qos |-> 0,
              payload |-> <<>>, client |-> i, rc |-> rc,
              lib |-> [op |-> "none", topic |-> <<>>, qos |-> 0,
                       payload |-> <<>>]]
  /\ UNCHANGED <<client, timer_id_, timers, list_, messages_, handled,
                 destroyed, ManagerVars, steps,
                 running>>

\* connack handler: sp and rc are unused
ConnackHandler(i, rc) ==
  /\ Worker(i)
  /\ net[i].phase = "connecting"
  /\ net' = [net EXCEPT ![i].phase = IF rc = accepted THEN "connected" ELSE "refused"]
  /\ setState(ConnectionConnected)
  /\ last' = Event("connack", state_, NoTopic, 0, NoPayload, i, rc, NoLibCall)
  /\ UNCHANGED <<client, timer_id_, timers, list_, messages_, handled,
                 destroyed, ManagerVars, steps,
                 running>>

\* the bytes behind topic_name.data(): the topic is followed in the receive
\* buffer by the packet id (QoS > 0), the payload and whatever lies beyond
TopicCStr(topic, qos, pid, payload, beyond) ==
  CStr(topic \o (IF qos = AtMostOnce THEN <<>> ELSE pid) \o payload \o beyond)

\* the MqttMessage the publish handler builds
InboundMessage(topic, qos, payload) ==
  [topic |-> topic, qos |-> qos, is_publish |-> FALSE, payload |-> payload]

PublishHandler(i, topic, qos, pid, payload, beyond) ==
  /\ Worker(i)
  /\ net[i].phase = "connected"
  /\ Step
  /\ Len(messages_) < MaxMessages
  /\ messages_' = addMessage(messages_,
                    InboundMessage(TopicCStr(topic, qos, pid, payload, beyond),
                                   qos, payload))
  /\ handled' = Append(handled, [is_publish |-> FALSE, payload |-> payload])
  /\ last' = Event("publish", state_, topic, qos, payload, i, "", NoLibCall)
  /\ UNCHANGED <<state_, emitted, client, net, timer_id_, timers, list_,
                 running, destroyed, ManagerVars>>

\* a close handler that stops the timer but leaves the state alone
CloseHandler_silent(i) ==
  /\ running /\ timers # {} /\ i \in 1..Len(net)
  /\ net[i].phase \notin {"closed", "failed"}
  /\ net' = [net EXCEPT ![i].phase = "closed"]
  /\ timers' = timers \ {timer_id_}
  /\ last' = [op |-> "close", pre |-> state_, topic |-> <<>>, qos |-> 0,
              payload |-> <<>>, client |-> i, rc |-> "",
              lib |-> [op |-> "none", topic |-> <<>>, qos |-> 0,
                       payload |-> <<>>]]
  /\ UNCHANGED <<state_, emitted, client, timer_id_, list_, messages_,
                 handled, destroyed, ManagerVars,
                 steps, running>>

\* a close handler that also empties the subscription registry
CloseHandler_forget(i) ==
  /\ running /\ timers # {} /\ i \in 1..Len(net)
  /\ net[i].phase \notin {"closed", "failed"}
  /\ net' = [net EXCEPT ![i].phase = "closed"]
  /\ state_' = "Disconnected"
  /\ emitted' = IF Len(emitted) < MaxObserved
                  THEN Append(emitted, "Disconnected")
                  ELSE Append(Tail(emitted), "Disconnected")
  /\ timers' = timers \ {timer_id_}
  /\ list_' = <<>>
  /\ last' = [op |-> "close", pre |-> state_, topic |-> <<>>, qos |-> 0,
              payload |-> <<>>, client |-> i, rc |-> "",
              lib |-> [op |-> "none", topic |-> <<>>, qos |-> 0,
                       payload |-> <<>>]]
  /\ UNCHANGED <<client, timer_id_, messages_, handled, destroyed, ManagerVars, steps,
                 running>>

CloseHandler(i) ==
  /\ Worker(i)
  /\ Live(net[i])
  /\ net' = [net EXCEPT ![i].phase = "closed"]
  /\ setState(ConnectionDisconnected)
  /\ timers' = timers \ {timer_id_}
  /\ last' = Event("close", state_, NoTopic, 0, NoPayload, i, "", NoLibCall)
  /\ UNCHANGED <<client, timer_id_, list_, messages_, handled, destroyed, ManagerVars, steps,
                 running>>

\* error handler: qWarning only
ErrorHandler(i) ==
  /\ Worker(i)
  /\ Live(net[i])
  /\ net' = [net EXCEPT ![i].phase = "failed"]
  /\ last' = Event("error", state_, NoTopic, 0, NoPayload, i, net[i].phase,
                   NoLibCall)
  /\ UNCHANGED <<state_, emitted, client, timer_id_, timers, list_, messages_,
                 handled, destroyed, ManagerVars, steps, running>>

\* a SUBACK arrives; no suback handler is installed, the library drops it
SubackReceived(i, topic, ok) ==
  /\ Worker(i)
  /\ net[i].phase = "connected"
  /\ topic \in net[i].subs
  /\ net' = [net EXCEPT ![i].subs = @ \ {topic}]
  /\ last' = Event("suback", state_, topic, 0, NoPayload, i,
                   IF ok THEN "granted" ELSE "failure", NoLibCall)
  /\ UNCHANGED <<state_, emitted, client, timer_id_, timers, list_, messages_,
                 handled, destroyed, ManagerVars, steps, running>>

\* the results the library reports to a completion callback
ErrorCodes == {"success", "failure"}

\* the completion callback given to async_publish: qWarning only
PublishCompletion(i, ec) ==
  /\ Worker(i)
  /\ net[i].pubs > 0
  /\ net' = [net EXCEPT ![i].pubs = @ - 1]
  /\ last' = Event("publish_completion", state_, NoTopic, 0, NoPayload, i, ec,
                   NoLibCall)
  /\ UNCHANGED <<state_, emitted, client, timer_id_, timers, list_, messages_,
                 handled, destroyed, ManagerVars, steps, running>>

----------------------------------------------------------------------------
(* Destruction of the session: ConnectManager::deleteRow takes the object  *)
(* out of clients_ and calls deleteLater() on it; the event loop then      *)
(* deletes it.                                                             *)

\* a deletion that frees nothing and leaves the timers running
deleteLater_leak ==
  /\ running
  /\ ~destroyed
  /\ destroyed' = TRUE
  /\ last' = [op |-> "deleteLater", pre |-> state_, topic |-> <<>>, qos |-> 0,
              payload |-> <<>>, client |-> client, rc |-> "",
              lib |-> [op |-> "none", topic |-> <<>>, qos |-> 0,
                       payload |-> <<>>]]
  /\ UNCHANGED <<state_, emitted, client, net, timer_id_, timers, list_,
                 messages_, handled, steps, running, ManagerVars>>

\* the library clients after delete p_: the io_context drops the handlers
\* still queued without running them, and every client is destroyed, which
\* closes its socket without a close event
deletePrivate(n) ==
  [i \in 1..Len(n) |->
     [n[i] EXCEPT !.phase = IF Live(n[i]) THEN "closed" ELSE @,
                  !.subs = {}, !.pubs = 0]]

\* ~MqttClient deletes p_; ~QObject then stops every timer of the object
deleteLater ==
  /\ running
  /\ ~destroyed
  /\ destroyed' = TRUE
  /\ net' = deletePrivate(net)
  /\ client' = 0
  /\ timers' = {}
  /\ last' = Event("deleteLater", state_, NoTopic, 0, NoPayload, client, "",
                   NoLibCall)
  /\ UNCHANGED <<state_, emitted, timer_id_, list_, messages_, handled, steps,
                 running, ManagerVars>>

----------------------------------------------------------------------------

Next ==
  \/ requestConnect
  \/ requestDisconnect
  \/ \E t \in Topics, q \in SubQoS, c \in Colors : requestSubscribe(t, q, c)
  \/ \E t \in UnsubTopics : requestUnsubscribe(t)
  \/ \E t \in PubTopics, q \in QoS, p \in Payloads : requestPublish(t, q, p)
  \/ \E i \in 1..MaxClients, rc \in ReturnCodes : ConnackHandler(i, rc)
  \/ \E i \in 1..MaxClients, t \in PubTopics, q \in InQoS, pid \in PacketIds,
        p \in Payloads, b \in Beyond : PublishHandler(i, t, q, pid, p, b)
  \/ \E i \in 1..MaxClients : CloseHandler(i)
  \/ \E i \in 1..MaxClients : ErrorHandler(i)
  \/ \E i \in 1..MaxClients, t \in Topics, ok \in BOOLEAN : SubackReceived(i, t, ok)
  \/ \E i \in 1..MaxClients, ec \in ErrorCodes : PublishCompletion(i, ec)
  \/ deleteLater

Spec == Init /\ [][Next]_vars

\* once a DISCONNECT has been sent on an established connection the
\* transport closes, and the poll timer keeps delivering what is ready
GracefulClose ==
  \E i \in 1..MaxClients :
    i <= Len(net) /\ net[i].disc /\ CloseHandler(i)

LiveSpec == Init /\ [][Next]_vars /\ WF_vars(GracefulClose)

----------------------------------------------------------------------------
(* Properties *)

\* the transitions of the session state machine
LegalTransitions ==
  {<<ConnectionDisconnected, ConnectionConnecting>>,
   <<ConnectionConnecting, ConnectionConnected>>,
   <<ConnectionConnecting, ConnectionConnectFailed>>,
   <<ConnectionConnectFailed, ConnectionConnecting>>,
   <<ConnectionConnected, ConnectionDisconnecting>>,
   <<ConnectionDisconnecting, ConnectionDisconnected>>,
   <<ConnectionConnected, ConnectionDisconnected>>}

\* C1: every consecutive pair of values carried by stateChanged is one of
\* the transitions of the state machine.
C1_ValidPath ==
  \A k \in 1..(Len(emitted) - 1) :
    <<emitted[k], emitted[k + 1]>> \in LegalTransitions

\* C2: requestConnect while Connecting, Connected or Disconnecting, and
\* requestDisconnect while Disconnected, ConnectFailed or Disconnecting, leave
\* the state unchanged and issue no protocol-library call.
C2_IllegalCallsRejected ==
  (\/ /\ last.op = "requestConnect"
      /\ last.pre \in {ConnectionConnecting, ConnectionConnected,
                        ConnectionDisconnecting}
   \/ /\ last.op = "requestDisconnect"
      /\ last.pre \in {ConnectionDisconnected, ConnectionConnectFailed,
                        ConnectionDisconnecting})
  => (state_ = last.pre /\ last.lib = NoLibCall)

\* C3: a connack delivered for an attempt that requestDisconnect cancelled
\* before any of its events does not set the state to Connected.
C3_NoSpuriousConnected ==
  (last.op = "connack" /\ net[last.client].cancelled)
  => state_ # ConnectionConnected

Count(l, topic) == Cardinality({k \in 1..Len(l) : l[k].topic = topic})

\* C4: the registry holds at most one entry per topic; a requestSubscribe of
\* a topic that is already registered is rejected and leaves exactly one
\* entry for it.
C4_SubscriptionUniqueness ==
  /\ \A k \in 1..Len(list_) : Count(list_, list_[k].topic) = 1
  /\ (last.op = "requestSubscribe" /\ last.rc \in {"accepted", "duplicate"})
     => Count(list_, last.topic) = 1

\* a second requestSubscribe of a registered topic has been rejected
C4_Witness ==
  /\ last.op = "requestSubscribe"
  /\ last.rc = "duplicate"
  /\ Len(list_) >= 2

\* C5: the message log is the sequence of accepted publish requests and
\* inbound deliveries in the order the session handled them.
C5_MessageOrder ==
  /\ Len(messages_) = Len(handled)
  /\ \A k \in 1..Len(messages_) :
       /\ messages_[k].is_publish = handled[k].is_publish
       /\ messages_[k].payload = handled[k].payload

\* an inbound delivery and a publish request were handled, in both orders of
\* kind and with different payloads
C5_Witness ==
  /\ Len(messages_) = 2
  /\ messages_[1].is_publish # messages_[2].is_publish
  /\ messages_[1].payload # messages_[2].payload

\* C6: when requestPublish is accepted, the last entry of the message log is
\* the one new message, with is_publish = true and the topic and payload of
\* the call.
C6_PublishLogged ==
  (last.op = "requestPublish" /\ last.rc = "accepted")
  => /\ Len(messages_) = Len(handled)
     /\ Len(messages_) >= 1
     /\ messages_[Len(messages_)].is_publish
     /\ messages_[Len(messages_)].topic = last.topic
     /\ messages_[Len(messages_)].payload = last.payload

\* a publish was accepted after an inbound message had been logged; its
\* payload holds a NUL byte, so the network publish carries another payload
C6_Witness ==
  /\ last.op = "requestPublish"
  /\ last.rc = "accepted"
  /\ Len(messages_) = 2
  /\ ~messages_[1].is_publish
  /\ last.lib.payload # last.payload

\* C7: a CONNACK whose return code is not 'accepted', received while
\* Connecting, moves the session to ConnectFailed (and not to Connected).
C7_RefusedConnectFails ==
  (last.op = "connack" /\ last.rc # accepted
     /\ last.pre = ConnectionConnecting)
  => state_ = ConnectionConnectFailed

\* C8: a transport or protocol error reported on the established connection
\* while the session is Connected makes the state Disconnected.
C8_ErrorDisconnects ==
  (last.op = "error" /\ last.rc = "connected"
     /\ last.pre = ConnectionConnected)
  => state_ = ConnectionDisconnected

\* requestDisconnect in state Connected sets the state to Disconnecting
C9_Disconnecting ==
  (last.op = "requestDisconnect" /\ last.pre = ConnectionConnected)
  => state_ = ConnectionDisconnecting

\* the state becomes Disconnected only in the step that delivers a close event
C9_OnlyOnClose ==
  (state_' = ConnectionDisconnected /\ state_ # ConnectionDisconnected)
  => last'.op = "close"

\* a DISCONNECT has been sent on client i's established connection
C9_Closing(i) ==
  i <= Len(net) /\ net[i].disc /\ net[i].phase = "connected" /\ running

\* the session is Disconnected, or the assumptions no longer hold: client
\* i's transport failed with an error instead, or the process has ended
C9_Closed(i) ==
  \/ state_ = ConnectionDisconnected
  \/ i <= Len(net) /\ net[i].phase = "failed"
  \/ ~running
  \/ destroyed

\* C9: requestDisconnect in state Connected sets the state to Disconnecting;
\* the state becomes Disconnected only when a close event is delivered; and
\* once the DISCONNECT has been sent, if the transport closes and the process
\* keeps polling, the session eventually reaches Disconnected.
C9_GracefulDisconnect ==
  /\ []C9_Disconnecting
  /\ [][C9_OnlyOnClose]_vars
  /\ \A i \in 1..MaxClients : C9_Closing(i) ~> C9_Closed(i)

\* the close event of a graceful disconnect has been delivered
C9_Witness ==
  /\ last.op = "close"
  /\ last.pre = ConnectionDisconnecting
  /\ net[last.client].disc
  /\ state_ = ConnectionDisconnected

\* C10: when the broker reports failure for a subscribe that was registered,
\* the topic is removed from the registry.
C10_SubscribeRolledBack ==
  (last.op = "suback" /\ last.rc = "failure")
  => ~hasSubscription(list_, last.topic)

\* the results of a request that returns early
Rejections == {"invalid_state", "duplicate", "not_subscribed"}

\* C11: a requestSubscribe, requestUnsubscribe or requestPublish that is
\* rejected (state is not Connected, topic already subscribed, topic not
\* subscribed) leaves the connection state, the subscription registry, the
\* message log and the protocol library's clients unchanged and issues no
\* library call.
C11_RejectedNoEffect ==
  [][last'.rc \in Rejections =>
       /\ state_' = state_
       /\ emitted' = emitted
       /\ list_' = list_
       /\ messages_' = messages_
       /\ net' = net
       /\ last'.lib = NoLibCall]_vars

\* an unsubscribe of a topic that is not in the registry was rejected while
\* Connected
C11_Witness ==
  /\ last.op = "requestUnsubscribe"
  /\ last.rc = "not_subscribed"
  /\ last.pre = ConnectionConnected
  /\ ~hasSubscription(list_, last.topic)
  /\ list_ # <<>>

\* C12: an accepted requestUnsubscribe(T) removes exactly one entry, the one
\* for T, keeping all other entries and their order; it issues exactly one
\* unsubscribe call for T; and afterwards T is not in the registry while the
\* state is still Connected, so that requestSubscribe(T, ...) passes both of
\* its guards again.
C12_AcceptedUnsubscribe ==
  [][(last'.op = "requestUnsubscribe" /\ last'.rc = "accepted") =>
       /\ \E k \in 1..Len(list_) :
            /\ list_[k].topic = last'.topic
            /\ Len(list_') = Len(list_) - 1
            /\ \A j \in 1..Len(list_') :
                 list_'[j] = list_[IF j < k THEN j ELSE j + 1]
       /\ last'.lib = LibCall("async_unsubscribe", last'.topic, 0, NoPayload)
       /\ ~hasSubscription(list_', last'.topic)
       /\ state_' = ConnectionConnected
       /\ messages_' = messages_]_vars

\* an entry was removed from in front of another entry, which is kept
C12_Witness ==
  /\ last.op = "requestUnsubscribe"
  /\ last.rc = "accepted"
  /\ last.topic = Hello
  /\ Len(list_) = 1
  /\ list_[1].topic \in Topics
  /\ last.lib.op = "async_unsubscribe"

\* C13: a PUBLISH packet delivered by the protocol library leaves, as the
\* newest entry of the message log, a message with is_publish = FALSE and
\* the topic, QoS and payload of the received packet.
C13_InboundLogged ==
  last.op = "publish" =>
    /\ messages_ # <<>>
    /\ messages_[Len(messages_)] =
         [topic |-> last.topic, qos |-> last.qos, is_publish |-> FALSE,
          payload |-> last.payload]

\* C14: the value carried by the most recent stateChanged equals state(),
\* and state() is Disconnected while no stateChanged has been emitted.
C14_StateAnnounced ==
  IF emitted = <<>>
    THEN state_ = ConnectionDisconnected
    ELSE emitted[Len(emitted)] = state_

\* the state has changed twice and each change was announced
C14_Witness ==
  /\ Len(emitted) = 2
  /\ emitted[1] = ConnectionConnecting
  /\ emitted[2] = ConnectionConnected
  /\ state_ = ConnectionConnected

\* C15: a connect attempt ends: once the transport of the session's pending
\* attempt has failed, which is the last event the library delivers for that
\* attempt, the session has left Connecting.
C15_AttemptEnds ==
  (/\ last.op = "error"
   /\ last.rc = "connecting"
   /\ last.client = client
   /\ last.pre = ConnectionConnecting)
  => state_ # ConnectionConnecting

\* C16: a poll timer is active exactly while the session has a connection
\* attempt or a live connection; at most one poll timer is active at any
\* time; and after a close event or a transport error no poll timer is
\* active.
C16_PollingLifecycle ==
  /\ Polling <=> \E i \in 1..Len(net) : Live(net[i])
  /\ Cardinality(timers) <= 1
  /\ last.op \in {"close", "error"} => timers = {}

----------------------------------------------------------------------------
(* InternalClient: the QObject whose do* slots wrap the protocol-library   *)
(* client.  It has its own p_->client (client), io_context (net) and       *)
(* timer (timer_id_, timers); emitted holds the stateChanged signals it    *)
(* emits.  It defines no timerEvent, so its io_context is never polled and *)
(* none of the handlers doConnect installs is ever run.  The session's     *)
(* state_, registry and log are not touched by it.                         *)

\* the session objects, which InternalClient has no access to
SessionObjects == <<state_, list_, messages_, handled, destroyed>>

\* InternalClient's constructor: p_ is allocated, p_->client is null
WorkerInit == Init

doConnect ==
  /\ running
  /\ Step
  /\ Len(net) < MaxClients
  /\ net' = Append(net, NewClient)
  /\ client' = Len(net) + 1
  /\ timer_id_' = startTimer
  /\ timers' = timers \cup {startTimer}
  /\ emitted' = Observe(emitted, ConnectionConnecting)
  /\ last' = Event("doConnect", state_, NoTopic, 0, NoPayload, Len(net) + 1, "",
                   LibCall("async_connect", NoTopic, 0, NoPayload))
  /\ UNCHANGED <<SessionObjects, ManagerVars, running>>

\* p_->client-> with a null p_->client is undefined behaviour: the process
\* is terminated or goes on
NullClient(op, topic, qos, payload) ==
  /\ client = 0
  /\ running' \in BOOLEAN
  /\ last' = Event(op, state_, topic, qos, payload, client, "null_client",
                   NoLibCall)
  /\ UNCHANGED net

doDisconnect ==
  /\ running
  /\ Step
  /\ \/ NullClient("doDisconnect", NoTopic, 0, NoPayload)
     \/ /\ client # 0
        /\ net' = async_disconnect(net, client)
        /\ last' = Event("doDisconnect", state_, NoTopic, 0, NoPayload, client,
                         "", LibCall("async_disconnect", NoTopic, 0, NoPayload))
        /\ UNCHANGED running
  /\ UNCHANGED <<SessionObjects, ManagerVars, emitted, client, timer_id_, timers>>

doSubscribe(topic, qos) ==
  /\ running
  /\ Step
  /\ \/ NullClient("doSubscribe", topic, qos, NoPayload)
     \/ /\ client # 0
        /\ net' = async_subscribe(net, client, topic)
        /\ last' = Event("doSubscribe", state_, topic, qos, NoPayload, client,
                         "", LibCall("async_subscribe", topic, qos, NoPayload))
        /\ UNCHANGED running
  /\ UNCHANGED <<SessionObjects, ManagerVars, emitted, client, timer_id_, timers>>

doUnsubscribe(topic) ==
  /\ running
  /\ Step
  /\ \/ NullClient("doUnsubscribe", topic, 0, NoPayload)
     \/ /\ client # 0
        /\ last' = Event("doUnsubscribe", state_, topic, 0, NoPayload, client,
                         "", LibCall("async_unsubscribe", topic, 0, NoPayload))
        /\ UNCHANGED <<net, running>>
  /\ UNCHANGED <<SessionObjects, ManagerVars, emitted, client, timer_id_, timers>>

\* the payload buffer is built from payload.constData(), a C string, and
\* the QoS on the wire is always exactly_once
doPublish(topic, qos, payload) ==
  /\ running
  /\ Step
  /\ \/ NullClient("doPublish", topic, qos, payload)
     \/ /\ client # 0
        /\ last' = Event("doPublish", state_, topic, qos, payload, client, "",
                         LibCall("async_publish", topic, ExactOnce,
                                 CStr(payload)))
        /\ net' = async_publish(net, client)
        /\ UNCHANGED running
  /\ UNCHANGED <<SessionObjects, ManagerVars, emitted, client, timer_id_, timers>>

WorkerNext ==
  \/ doConnect
  \/ doDisconnect
  \/ \E t \in Topics, q \in QoS : doSubscribe(t, q)
  \/ \E t \in Topics : doUnsubscribe(t)
  \/ \E t \in PubTopics, q \in QoS, p \in Payloads : doPublish(t, q, p)

WorkerSpec == WorkerInit /\ [][WorkerNext]_vars

\* the slots that need an established connection
WorkerCalls == {"doDisconnect", "doSubscribe", "doUnsubscribe", "doPublish"}

\* C17: doDisconnect, doSubscribe, doUnsubscribe or doPublish executed while
\* the worker has no established connection (no client yet, attempt pending,
\* or connection closed) ends with a failure result, without a
\* protocol-library call and without dereferencing an absent client.
C17_WorkerFailFast ==
  (/\ last.op \in WorkerCalls
   /\ \/ last.client = 0
      \/ net[last.client].phase # "connected")
  => /\ last.rc = "failure"
     /\ last.lib = NoLibCall

LibraryHandlers ==
  {"connack", "publish", "close", "error", "suback", "publish_completion"}

\* C19: a step of a protocol-library handler (connack, publish, close,
\* error) does not itself change the subscription registry or the message
\* log; only the session's own request steps do.
C19_HandlersDoNotMutate ==
  [][last'.op \in LibraryHandlers =>
       /\ list_' = list_
       /\ messages_' = messages_]_vars

\* C20: once the session has been destroyed no protocol-library handler of
\* that session runs, no poll timer of it is active, and none of its
\* connections is alive.
C20_SynchronizedTeardown ==
  /\ [](destroyed =>
          /\ ~Polling
          /\ \A i \in 1..Len(net) : ~Live(net[i]))
  /\ [][destroyed => last'.op \notin LibraryHandlers]_vars

\* a session was destroyed while Connected, with its connection established
\* and its poll timer running
C20_Witness ==
  /\ destroyed
  /\ last.op = "deleteLater"
  /\ last.pre = ConnectionConnected
  /\ last.client # 0
  /\ net[last.client].phase = "closed"
  /\ timer_id_ # 0

\* the step announces something to the session's observers: a stateChanged
\* is emitted, or the registry or the message log changes
Announced ==
  \/ \E state \in ConnectionState : emitted' = Observe(emitted, state)
  \/ list_' # list_
  \/ messages_' # messages_

\* C21: the step in which the protocol library reports the result of an
\* accepted publish, or a transport error, announces it to the observers of
\* the session; it is not only written to the log.
C21_FailuresSurfaced ==
  [][last'.op \in {"publish_completion", "error"} => Announced]_vars

\* C22: a rejected requestSubscribe, requestUnsubscribe or requestPublish
\* (state not Connected, duplicate topic, absent topic) does not terminate
\* the process.
C22_UsageErrorsSurvive ==
  last.rc \in Rejections => running

\* C23: the step that starts a connect attempt emits
\* stateChanged(Connecting), and a connack or close handler runs only for an
\* attempt that has been started; so Connecting is observed before the
\* Connected or Disconnected of the same attempt.
C23_ConnectingFirst ==
  [][/\ Len(net') > Len(net) =>
          /\ last'.op = "requestConnect"
          /\ emitted' # <<>>
          /\ emitted'[Len(emitted')] = ConnectionConnecting
     /\ last'.op \in {"connack", "close"} =>
          /\ last'.client \in 1..Len(net)
          /\ emitted # <<>>]_vars

\* the only attempt was closed while the session was still Connecting
C23_Witness ==
  /\ Len(net) = 1
  /\ last.op = "close"
  /\ last.pre = ConnectionConnecting
  /\ emitted = <<ConnectionConnecting, ConnectionDisconnected>>

\* C24: at most one protocol-library client of the session is connecting or
\* connected at any time, and a connack or close handler that sets the
\* session state belongs to the client p_->client refers to.
C24_OneLiveClient ==
  /\ Cardinality({i \in 1..Len(net) : Live(net[i])}) <= 1
  /\ (last.op \in {"connack", "close"} /\ ~destroyed) => last.client = client

\* C25: the publish call issued for an accepted requestPublish carries the
\* caller's QoS, which is also the QoS of the message logged for it.
C25_PublishQoS ==
  (last.op = "requestPublish" /\ last.rc = "accepted")
  => /\ last.lib.op = "async_publish"
     /\ last.lib.qos = last.qos
     /\ messages_ # <<>>
     /\ messages_[Len(messages_)].qos = last.lib.qos

\* C26: whenever the message log changes, it grows by exactly one message,
\* placed at the announced row, which is the previous length; every row
\* below it returns the message it returned before; and the new row returns
\* the message of the request or delivery that caused the change.
C26_AppendOnly ==
  [][messages_' # messages_ =>
       /\ Len(messages_') = Len(messages_) + 1
       /\ \A r \in 0..(Len(messages_) - 1) :
            row(messages_', r) = row(messages_, r)
       /\ ~row(messages_, insertedRow(messages_)).ok
       /\ row(messages_', insertedRow(messages_)).ok
       /\ row(messages_', insertedRow(messages_)).msg[1].payload = last'.payload
       /\ row(messages_', insertedRow(messages_)).msg[1].is_publish
            = (last'.op = "requestPublish")]_vars

\* an inbound message was appended behind a published one, and then the
\* connection was closed
C26_Witness ==
  /\ Len(messages_) = 2
  /\ messages_[1].is_publish
  /\ ~messages_[2].is_publish
  /\ row(messages_, 1).msg = <<messages_[2]>>
  /\ last.op = "close"
  /\ state_ = ConnectionDisconnected

\* C27: every entry of the subscription registry was created by an accepted
\* requestSubscribe; the registry of a session that has not had a request
\* accepted yet is empty.
C27_RegistryProvenance ==
  /\ steps = 0 => list_ = <<>>
  /\ \A k \in 1..Len(list_) : list_[k].topic \in Topics

\* C28: requestDisconnect, the close event and a transport error leave the
\* subscription registry and the message log unchanged; and a
\* requestSubscribe(T) made while Connected for a topic T that is in the
\* registry, also one registered on an earlier connection, is rejected as a
\* duplicate without a protocol-library call.
C28_SubscriptionsSurvive ==
  [][/\ last'.op \in {"requestDisconnect", "close", "error"} =>
          /\ list_' = list_
          /\ messages_' = messages_
     /\ (/\ last'.op = "requestSubscribe"
         /\ state_ = ConnectionConnected
         /\ hasSubscription(list_, last'.topic)) =>
          /\ last'.rc = "duplicate"
          /\ last'.lib = NoLibCall
          /\ net' = net
          /\ list_' = list_]_vars

\* a topic subscribed on the first connection, which has been closed, was
\* refused as a duplicate on the second, established connection, on which
\* no SUBSCRIBE for it is pending
C28_Witness ==
  /\ Len(net) = 2
  /\ net[1].phase = "closed"
  /\ net[2].phase = "connected"
  /\ client = 2
  /\ last.op = "requestSubscribe"
  /\ last.rc = "duplicate"
  /\ last.topic \in Topics
  /\ hasSubscription(list_, last.topic)
  /\ last.topic \notin net[2].subs

----------------------------------------------------------------------------
(* ConnectManager: the list of connection configs and the session created  *)
(* for each on demand.  A config is represented by its id, a session by    *)
(* the number of the MqttClient object.                                    *)

\* the ids client() and deleteRow() are called with: every id that
\* generateConfigId can have handed out, and one it never hands out
ConfigIds == 1..(MaxConfigs + 1)

\* generateConfigId: a fresh UUID
generateConfigId == uuids + 1

\* QMap::contains, QMap::value, QMap::insert and QMap::take on clients_
contains(m, id) == \E e \in m : e[1] = id
value(m, id) == (CHOOSE e \in m : e[1] = id)[2]
insert(m, id, c) == {e \in m : e[1] # id} \cup {<<id, c>>}
take(m, id) == {e \in m : e[1] # id}

\* some config of the list has this id
hasConfig(l, id) == \E k \in 1..Len(l) : l[k] = id

\* the list without its first config with this id
removeConfig(l, id) ==
  IF hasConfig(l, id)
    THEN removeAt(l, CHOOSE k \in 1..Len(l) :
                       l[k] = id /\ \A j \in 1..(k - 1) : l[j] # id)
    ELSE l

\* addConnection appends a config with a fresh id and saves the list
addConnection ==
  /\ uuids < MaxConfigs
  /\ uuids' = generateConfigId
  /\ configs_' = Append(configs_, generateConfigId)
  /\ called' = Call("addConnection", generateConfigId, generateConfigId, TRUE)
  /\ UNCHANGED <<SessionVars, clients_, objects, conn_list_>>

\* client(config_id): the existing session, or a new one for a known config,
\* or nullptr (0)
ConnectManager_client(config_id) ==
  /\ \/ /\ contains(clients_, config_id)
        /\ called' = Call("client", config_id, value(clients_, config_id),
                          FALSE)
        /\ UNCHANGED <<clients_, objects>>
     \/ /\ ~contains(clients_, config_id)
        /\ hasConfig(configs_, config_id)
        /\ objects' = objects + 1
        /\ clients_' = insert(clients_, config_id, objects + 1)
        /\ called' = Call("client", config_id, objects + 1, FALSE)
     \/ /\ ~contains(clients_, config_id)
        /\ ~hasConfig(configs_, config_id)
        /\ called' = Call("client", config_id, 0, FALSE)
        /\ UNCHANGED <<clients_, objects>>
  /\ UNCHANGED <<SessionVars, configs_, uuids, conn_list_>>

\* a deleteRow that removes the config but keeps the session in clients_
deleteRow_keep(config_id) ==
  /\ configs_' =
       IF \E k \in 1..Len(configs_) : configs_[k] = config_id
         THEN SubSeq(configs_, 1,
                     (CHOOSE k \in 1..Len(configs_) : configs_[k] = config_id
                        /\ \A j \in 1..(k - 1) : configs_[j] # config_id) - 1)
              \o SubSeq(configs_,
                     (CHOOSE k \in 1..Len(configs_) : configs_[k] = config_id
                        /\ \A j \in 1..(k - 1) : configs_[j] # config_id) + 1,
                     Len(configs_))
         ELSE configs_
  /\ called' = [op |-> "deleteRow", id |-> config_id, ret |-> 0,
                saved |-> \E k \in 1..Len(configs_) : configs_[k] = config_id]
  /\ UNCHANGED <<SessionVars, clients_, uuids, objects, conn_list_>>

\* deleteRow(config_id): the session, if any, is taken out of clients_ and
\* handed to deleteLater; the config is removed and the list saved
deleteRow(config_id) ==
  /\ clients_' = take(clients_, config_id)
  /\ configs_' = removeConfig(configs_, config_id)
  /\ called' = Call("deleteRow", config_id, 0, hasConfig(configs_, config_id))
  /\ UNCHANGED <<SessionVars, uuids, objects, conn_list_>>

ManagerNext ==
  \/ addConnection
  \/ \E id \in ConfigIds : ConnectManager_client(id)
  \/ \E id \in ConfigIds : deleteRow(id)

ManagerSpec == Init /\ [][ManagerNext]_vars

\* C29: every key of clients_ is the id of a config in configs_ and has one
\* session; a session stays in clients_ under its id until deleteRow(id);
\* client(id) returns the session clients_ holds for id, and for an id that
\* is in neither list it returns null and creates nothing; after
\* deleteRow(id) neither a config nor a session for id remains.
C29_OneSessionPerProfile ==
  /\ [](\A e \in clients_ :
          /\ hasConfig(configs_, e[1])
          /\ \A f \in clients_ : f[1] = e[1] => f = e)
  /\ [](called.op = "client" =>
          IF called.ret = 0 THEN ~contains(clients_, called.id)
                            ELSE <<called.id, called.ret>> \in clients_)
  /\ [](called.op = "deleteRow" =>
          ~hasConfig(configs_, called.id) /\ ~contains(clients_, called.id))
  /\ [][/\ \A e \in clients_ :
            e \in clients_' \/ (called'.op = "deleteRow" /\ called'.id = e[1])
       /\ (called'.op = "client" /\ ~hasConfig(configs_, called'.id)) =>
            /\ called'.ret = 0
            /\ clients_' = clients_
            /\ objects' = objects]_vars

\* client(id) was called again for a config that has a session, after
\* another config and its session had been deleted
C29_Witness ==
  /\ called.op = "client"
  /\ called.ret # 0
  /\ <<called.id, called.ret>> \in clients_
  /\ objects = 2
  /\ Len(configs_) = 1
  /\ Cardinality(clients_) = 1

----------------------------------------------------------------------------
(* ConnectionModel, the list of connections by name, and the               *)
(* ConnectManager::deleteConnection that uses it                           *)

\* the names connections are added and deleted with
ConnNames == {"home", "work", "lab"}

\* addConnectionInfo appends; names need not be distinct
addConnectionInfo(name) ==
  /\ Len(conn_list_) < MaxConnections
  /\ conn_list_' = Append(conn_list_, name)
  /\ called' = Call("addConnectionInfo", name, 0, FALSE)
  /\ UNCHANGED <<SessionVars, configs_, clients_, uuids, objects>>

\* the value of index after the search loop, counted from 0: the position
\* of the first entry with this name, or the length of the list
searchIndex(l, name) ==
  IF \E k \in 1..Len(l) : l[k] = name
    THEN (CHOOSE k \in 1..Len(l) :
            l[k] = name /\ \A j \in 1..(k - 1) : l[j] # name) - 1
    ELSE Len(l)

\* deleteConnectionInfo(name): list is the list it leaves, ret its result,
\* which compares index with the length of the list after the removal
deleteConnectionInfo(l, name) ==
  LET index == searchIndex(l, name)
      after == IF index < Len(l) THEN removeAt(l, index + 1) ELSE l
  IN  [list |-> after, ret |-> index < Len(after)]

\* deleteConnection(name): saveConnInfo is called when deleteConnectionInfo
\* returns true; a session stored under the name is taken out of clients_
\* and asked to disconnect
deleteConnection(name) ==
  /\ conn_list_' = deleteConnectionInfo(conn_list_, name).list
  /\ called' = Call("deleteConnection", name,
                    deleteConnectionInfo(conn_list_, name).ret,
                    deleteConnectionInfo(conn_list_, name).ret)
  /\ clients_' = take(clients_, name)
  /\ UNCHANGED <<SessionVars, configs_, uuids, objects>>

ModelNext ==
  \/ \E name \in ConnNames : addConnectionInfo(name)
  \/ \E name \in ConnNames : deleteConnection(name)

ModelSpec == Init /\ [][ModelNext]_vars

\* C30: deleteConnectionInfo(name) returns true exactly when the list held
\* an entry with that name, in which case the list loses that entry, and
\* otherwise leaves the list unchanged; and deleteConnection saves the list
\* whenever an entry was removed.
C30_DeleteConnectionInfo ==
  [][called'.op = "deleteConnection" =>
       LET existed == \E k \in 1..Len(conn_list_) :
                        conn_list_[k] = called'.id
       IN  /\ called'.ret = existed
           /\ called'.saved = existed
           /\ Len(conn_list_') = Len(conn_list_) - (IF existed THEN 1 ELSE 0)
           /\ ~existed => conn_list_' = conn_list_]_vars

====

